---- MODULE Spec2Model ----
(***************************************************************************)
(* Konflikt-Simulator backend: the session store and interrupt flags of    *)
(* ConflictSimulator (core/graph.py), the rule-based router                *)
(* (core/router.py), the streaming agent nodes (core/agents.py) and the    *)
(* websocket handlers that drive them (api/websocket.py, main.py).         *)
(*                                                                         *)
(* The server is one asyncio event loop: code between two awaits/yields    *)
(* runs atomically, and every await (a chunk of the LLM stream, a send on  *)
(* the websocket, the router call) is a point where the handler of another *)
(* websocket connection may run.  One action below is one such atomic      *)
(* stretch of one connection's handler.                                    *)
(***************************************************************************)
EXTENDS Naturals, Sequences, FiniteSets, TLC

\* ------------------------------------------------------------------ bounds
\* websocket connections served by the event loop
Conns == {"c1", "c2"}
\* ids uuid4 hands out to start_session
NewIds == {1}
\* atomic stretches (handler or run steps) a behaviour is followed for
MaxSteps == 7
\* chunks the evaluator's stream delivers at most
MaxChunks == 1
\* largest turns value of the states the router is called on directly
MaxTurns == 4

\* ids a client may name; 2 is never in the store, 1 not before it is created
SessionIds == NewIds \cup {2}

NoSpeaker == "none"
NoRole == "none"
Roles == {"agent_a", "agent_b", "human", "evaluator", "end"}

VARIABLES
    sessions,          \* ConflictSimulator.sessions: id -> SimulationState
    interrupt_flags,   \* ConflictSimulator._interrupt_flags: id -> bool
    run,               \* per connection: the handler/run in progress (locals)
    out,               \* per connection: wire messages sent for the current client message
    last,              \* the atomic stretch executed last: connection, name, session id
    steps,             \* atomic stretches executed so far
    executor,          \* the simulator method the handlers iterate over
    yielded            \* per connection: events the executor yielded for the current client message

vars == <<sessions, interrupt_flags, run, out, last, steps, executor, yielded>>

\* ------------------------------------------------------------ data shapes
Msg(name, human, content) == [name |-> name, human |-> human, content |-> content]

Event(type, agent, content) == [type |-> type, agent |-> agent, content |-> content]

\* pc: idle (no client message being handled), closed (the endpoint's
\*     receive loop was left), start (session_started sent),
\*     stream / retry / final (inside an agent node), route (awaiting the
\*     router), eval (inside the evaluator node), cleanup (evaluation sent).
\* op, ret: the client message being handled and what the simulator call
\*     of its handler returned.
\* rule_only: every router call of this run fell back to route_next_speaker.
\* intr: interrupt_session was called for the session while this run was
\*     inside an agent node.
IdleRun == [pc |-> "idle", op |-> "none", sid |-> 0, ret |-> "none",
            next_speaker |-> NoSpeaker, chunks |-> 0, full_response |-> "",
            rule_only |-> TRUE, intr |-> FALSE]

NewRun(op, sid, ret) == [IdleRun EXCEPT !.op = op, !.sid = sid, !.ret = ret]

Step(c, act, sid) == [conn |-> c, act |-> act, sid |-> sid]

\* connection c executes the stretch act on session sid
Do(c, act, sid) ==
    /\ steps < MaxSteps
    /\ steps' = steps + 1
    /\ last' = Step(c, act, sid)
    /\ executor' = executor

Active(r) == r.pc \notin {"idle", "closed", "start"}

InAgentNode(r) == r.pc \in {"stream", "retry", "final"}

AgentLetter(speaker) == IF speaker = "agent_a" THEN "a" ELSE "b"

\* dict.get(session_id, False) on _interrupt_flags
FlagGet(F, sid) == IF sid \in DOMAIN F THEN F[sid] ELSE FALSE

\* d[k] = v on a dict
DictSet(d, k, v) == [x \in (DOMAIN d) \cup {k} |-> IF x = k THEN v ELSE d[x]]

\* del d[k]
DictDel(d, k) == [x \in (DOMAIN d) \ {k} |-> d[x]]

\* send_event without the branch for evaluation
send_event_no_evaluation(event) ==
    IF event.type \in {"agent_message", "streaming_chunk"}
    THEN <<Event(event.type, event.agent, event.content)>>
    ELSE IF event.type = "typing"
    THEN <<Event("typing", event.agent, "")>>
    ELSE IF event.type \in {"waiting_for_input", "waiting_for_decision", "error"}
    THEN <<Event(event.type, "", event.content)>>
    ELSE <<>>

\* send_event: the wire messages sent for one event of the executor.  Each
\* branch copies the fields of its type (content standing for content,
\* chunk, expected_role, suggested_next or message); an event of any other
\* type is sent nothing for.
send_event(event) ==
    IF event.type \in {"agent_message", "streaming_chunk"}
    THEN <<Event(event.type, event.agent, event.content)>>
    ELSE IF event.type = "typing"
    THEN <<Event("typing", event.agent, "")>>
    ELSE IF event.type \in {"waiting_for_input", "evaluation", "waiting_for_decision", "error"}
    THEN <<Event(event.type, "", event.content)>>
    ELSE <<>>

\* 'async for event in ...: await send_event(...)' over a sequence of events
RECURSIVE SendAll(_)
SendAll(events) ==
    IF events = <<>> THEN <<>>
    ELSE send_event(Head(events)) \o SendAll(Tail(events))

\* the events yielded for the client message connection c is handling; a
\* step that begins at pc = idle begins a new client message
Yielded(c, events) ==
    yielded' = [yielded EXCEPT ![c] = (IF run[c].pc = "idle" THEN <<>> ELSE @) \o events]

\* the executor yields events to connection c's handler, which sends them
\* after the output O
Emit(c, O, events) ==
    /\ out' = [out EXCEPT ![c] = O \o SendAll(events)]
    /\ Yielded(c, events)

\* connection c's handler sends the wire messages msgs itself, after O
SendJson(c, O, msgs) ==
    /\ out' = [out EXCEPT ![c] = O \o msgs]
    /\ Yielded(c, <<>>)

\* ----------------------------------------------------------------- router
\* the fallback with the mediator's chance to intervene after every agent_b turn
route_fallback_human_after_b(state) ==
    IF state.messages = <<>> THEN "agent_a"
    ELSE LET last_speaker == state.messages[Len(state.messages)].name
         IN  IF state.mode = "mediator" /\ last_speaker = "agent_a" THEN "agent_b"
             ELSE IF state.mode = "mediator" /\ last_speaker = "agent_b" THEN "human"
             ELSE "agent_a"

\* the fallback of route_next_speaker: decide from the last message
route_fallback(state) ==
    IF state.messages = <<>> THEN "agent_a"
    ELSE LET last_message == state.messages[Len(state.messages)]
             last_speaker == last_message.name
         IN  IF state.mode = "mediator" THEN
                 IF last_speaker = "agent_a" THEN "agent_b"
                 ELSE IF last_speaker = "agent_b" THEN
                     (IF state.turns % 4 = 0 THEN "human" ELSE "agent_a")
                 ELSE "agent_a"
             ELSE IF state.mode = "participant" THEN
                 IF state.user_role = "agent_a" THEN
                     (IF last_speaker = "agent_b" \/ last_message.human
                      THEN "agent_b" ELSE "human")
                 ELSE IF state.user_role = "agent_b" THEN
                     (IF last_speaker = "agent_a" \/ last_message.human
                      THEN "agent_a" ELSE "human")
                 ELSE "agent_a"
             ELSE "agent_a"

\* route_next_speaker with the explicit next_speaker consulted before should_stop
route_next_speaker_stored_first(state) ==
    IF state.next_speaker # NoSpeaker THEN state.next_speaker
    ELSE IF state.should_stop THEN "evaluator"
    ELSE route_fallback(state)

\* route_next_speaker deciding from the transcript even when next_speaker is set
route_next_speaker_ignores_stored(state) ==
    IF state.should_stop THEN "evaluator" ELSE route_fallback(state)

route_next_speaker(state) ==
    IF state.should_stop THEN "evaluator"
    ELSE IF state.next_speaker # NoSpeaker THEN state.next_speaker
    ELSE route_fallback(state)

\* should_continue answering continue for every speaker but evaluator and end
should_continue_human_continues(state) ==
    IF state.should_stop THEN "evaluate"
    ELSE LET next_speaker == route_next_speaker(state)
         IN  IF next_speaker = "evaluator" THEN "evaluate"
             ELSE IF next_speaker = "end" THEN "end"
             ELSE "continue"

should_continue(state) ==
    IF state.should_stop THEN "evaluate"
    ELSE LET next_speaker == route_next_speaker(state)
         IN  IF next_speaker = "human" THEN "wait_for_human"
             ELSE IF next_speaker = "evaluator" THEN "evaluate"
             ELSE IF next_speaker = "end" THEN "end"
             ELSE "continue"

determine_expected_role(state) ==
    IF state.mode = "mediator" THEN "mediator"
    ELSE IF state.mode = "participant" /\ state.user_role \in {"agent_a", "agent_b"}
         THEN state.user_role
    ELSE "mediator"

\* The capability-driven router called after every agent turn.  llm is the
\* outcome of its classification call: it failed, it let the two personas
\* continue, or it inserted a human decision point.
SmartOutcomes == {"fail", "continue", "human"}

smart_route_next_speaker(state, llm) ==
    IF llm = "fail" THEN route_next_speaker(state)
    ELSE IF llm = "human" THEN "human"
    ELSE LET last_speaker == state.messages[Len(state.messages)].name
         IN  IF last_speaker = "agent_a" THEN "agent_b" ELSE "agent_a"

\* --------------------------------------------------------- session store
\* uuid4: an id no session uses
FreshId(S) == CHOOSE i \in NewIds : i \notin DOMAIN S

\* start_session that stores the session without the seed message
start_session_empty_transcript(S, mode, user_role) ==
    DictSet(S, FreshId(S),
            [messages |-> <<>>,
             mode |-> mode,
             next_speaker |-> "agent_a",
             turns |-> 0,
             user_role |-> user_role,
             should_stop |-> FALSE])

start_session(S, mode, user_role) ==
    DictSet(S, FreshId(S),
            [messages |-> <<Msg("system", TRUE, "text")>>,
             mode |-> mode,
             next_speaker |-> "agent_a",
             turns |-> 0,
             user_role |-> user_role,
             should_stop |-> FALSE])

\* interrupt_session that sets the flag before looking the session up
interrupt_session_flag_first(S, F, sid) ==
    IF sid \in DOMAIN S
    THEN [sessions |-> [S EXCEPT ![sid].should_stop = TRUE],
          flags |-> DictSet(F, sid, TRUE),
          ret |-> TRUE]
    ELSE [sessions |-> S, flags |-> DictSet(F, sid, TRUE), ret |-> FALSE]

\* result of interrupt_session: the store, the flags and the return value
interrupt_session(S, F, sid) ==
    IF sid \in DOMAIN S
    THEN [sessions |-> [S EXCEPT ![sid].should_stop = TRUE],
          flags |-> DictSet(F, sid, TRUE),
          ret |-> TRUE]
    ELSE [sessions |-> S, flags |-> F, ret |-> FALSE]

\* result of stop_session: the store and the return value
stop_session(S, sid) ==
    IF sid \notin DOMAIN S
    THEN [sessions |-> S, ret |-> FALSE]
    ELSE [sessions |-> [S EXCEPT ![sid].should_stop = TRUE], ret |-> TRUE]

\* add_human_message that stores the speaker's own role as next_speaker
add_human_message_echoes_role(S, sid, role) ==
    IF sid \notin DOMAIN S
    THEN [sessions |-> S, ret |-> FALSE]
    ELSE LET state == S[sid]
         IN  [sessions |-> [S EXCEPT ![sid] =
                               [state EXCEPT
                                   !.messages = Append(state.messages, Msg(role, TRUE, "text")),
                                   !.next_speaker = role]],
              ret |-> TRUE]

\* add_human_message that counts the human message as a turn
add_human_message_counts_turn(S, sid, role) ==
    IF sid \notin DOMAIN S
    THEN [sessions |-> S, ret |-> FALSE]
    ELSE LET state == S[sid]
             next == IF role = "agent_a" THEN "agent_b" ELSE "agent_a"
         IN  [sessions |-> [S EXCEPT ![sid] =
                               [state EXCEPT
                                   !.messages = Append(state.messages, Msg(role, TRUE, "text")),
                                   !.turns = state.turns + 1,
                                   !.next_speaker = next]],
              ret |-> TRUE]

\* add_human_message that appends the message and leaves next_speaker alone
add_human_message_no_handover(S, sid, role) ==
    IF sid \notin DOMAIN S
    THEN [sessions |-> S, ret |-> FALSE]
    ELSE [sessions |-> [S EXCEPT ![sid].messages = Append(@, Msg(role, TRUE, "text"))],
          ret |-> TRUE]

\* result of add_human_message: the store and the return value
add_human_message(S, sid, role) ==
    IF sid \notin DOMAIN S
    THEN [sessions |-> S, ret |-> FALSE]
    ELSE LET state == S[sid]
             next == IF role = "agent_a" THEN "agent_b" ELSE "agent_a"
         IN  [sessions |-> [S EXCEPT ![sid] =
                               [state EXCEPT
                                   !.messages = Append(state.messages, Msg(role, TRUE, "text")),
                                   !.next_speaker = next]],
              ret |-> TRUE]

\* AppendAgentMessage that assigns the message list instead of appending to it
AppendAgentMessage_assign(state, speaker, cleaned_content) ==
    [state EXCEPT
        !.messages = <<Msg(speaker, FALSE, cleaned_content)>>,
        !.turns = state.turns + 1]

\* The message of the finished agent node is appended and turns is
\* incremented.  cleaned_content is "" or "text": the texts of the model
\* carry no self-prefix, so cleaning keeps their class.
AppendAgentMessage(state, speaker, cleaned_content) ==
    [state EXCEPT
        !.messages = Append(state.messages, Msg(speaker, FALSE, cleaned_content)),
        !.turns = state.turns + 1]

\* lines 411-413: the evaluator message is appended
AppendEvaluation(state, full_content) ==
    [state EXCEPT !.messages = Append(state.messages, Msg("evaluator", FALSE, full_content))]

\* ------------------------------------------------- run_with_streaming
\* the top of the while loop without the test of should_stop
LoopTop_ignores_stop(c, Ss, F, r, O) ==
    LET exits == {"human", "evaluator", "end"}
        next_speaker == IF r.next_speaker \notin exits /\ FlagGet(F, r.sid)
                        THEN "evaluator" ELSE r.next_speaker
    IN  /\ sessions' = Ss
        /\ interrupt_flags' = IF next_speaker \in {"human", "end"} THEN DictDel(F, r.sid) ELSE F
        /\ run' = [run EXCEPT ![c] =
                     [r EXCEPT !.pc = IF next_speaker \notin exits THEN "stream"
                                      ELSE IF next_speaker = "evaluator" THEN "eval"
                                      ELSE "idle",
                               !.chunks = 0, !.full_response = "",
                               !.next_speaker = next_speaker]]
        /\ Emit(c, O, IF next_speaker \notin exits
                       THEN <<Event("typing", AgentLetter(next_speaker), "")>>
                       ELSE IF next_speaker = "evaluator"
                       THEN <<Event("typing", "evaluator", "")>>
                       ELSE IF next_speaker = "human"
                       THEN <<Event("waiting_for_input", "",
                                    determine_expected_role(Ss[r.sid]))>>
                       ELSE <<>>)

\* From the top of the while loop to the next point where the run is
\* suspended: the typing event of an agent node, the typing event of the
\* evaluator, or the end of the run (cleanup, waiting_for_input).
\* Ss, F, O: the store, the flags and the connection's output so far;
\* r: the run's locals, r.next_speaker being the local next_speaker.
LoopTop(c, Ss, F, r, O) ==
    LET sid == r.sid
        state == Ss[sid]
        exits == {"human", "evaluator", "end"}
        next_speaker == IF r.next_speaker \in exits THEN r.next_speaker
                        ELSE IF FlagGet(F, sid) THEN "evaluator"
                        ELSE IF state.should_stop THEN "evaluator"
                        ELSE r.next_speaker
    IN  IF next_speaker \notin exits
        THEN /\ sessions' = Ss
             /\ interrupt_flags' = F
             /\ run' = [run EXCEPT ![c] = [r EXCEPT !.pc = "stream", !.chunks = 0,
                                                     !.full_response = ""]]
             /\ Emit(c, O, <<Event("typing", AgentLetter(next_speaker), "")>>)
        ELSE IF next_speaker = "evaluator"
        THEN /\ sessions' = Ss
             /\ interrupt_flags' = F
             /\ run' = [run EXCEPT ![c] = [r EXCEPT !.pc = "eval", !.chunks = 0,
                                                     !.full_response = "",
                                                     !.next_speaker = next_speaker]]
             /\ Emit(c, O, <<Event("typing", "evaluator", "")>>)
        ELSE /\ sessions' = Ss
             /\ interrupt_flags' = DictDel(F, sid)
             /\ run' = [run EXCEPT ![c] = [r EXCEPT !.pc = "idle"]]
             /\ Emit(c, O, IF next_speaker = "human"
                            THEN <<Event("waiting_for_input", "",
                                         determine_expected_role(state))>>
                            ELSE <<>>)

\* run_single_turn after its one turn and the router call: the flag is
\* deleted like at the end of every run, the router's answer is sent as the
\* suggestion of waiting_for_decision and the run ends instead of looping.
\* This variant continues the loop.
run_single_turn_loops(c, Ss, F, r, O) == LoopTop(c, Ss, F, r, O)

run_single_turn_stop(c, Ss, F, r, O) ==
    /\ sessions' = Ss
    /\ interrupt_flags' = DictDel(F, r.sid)
    /\ run' = [run EXCEPT ![c] = [r EXCEPT !.pc = "idle"]]
    /\ Emit(c, O, <<Event("waiting_for_decision", "", r.next_speaker)>>)

\* run_with_streaming that initialises the interrupt flag before it looks
\* the session up
RunPrelude_flag_first(c, Ss, F, r, O) ==
    IF r.sid \notin DOMAIN Ss
    THEN /\ sessions' = Ss
         /\ interrupt_flags' = DictSet(F, r.sid, FALSE)
         /\ run' = [run EXCEPT ![c] = [r EXCEPT !.pc = "idle"]]
         /\ Emit(c, O, <<Event("error", "", "Session not found")>>)
    ELSE LoopTop(c, Ss, DictSet(F, r.sid, FALSE),
                 [r EXCEPT !.next_speaker = Ss[r.sid].next_speaker], O)

\* run_with_streaming that initialises the flag only when it has no entry
RunPrelude_keeps_flag(c, Ss, F, r, O) ==
    IF r.sid \notin DOMAIN Ss
    THEN /\ sessions' = Ss
         /\ interrupt_flags' = F
         /\ run' = [run EXCEPT ![c] = [r EXCEPT !.pc = "idle"]]
         /\ Emit(c, O, <<Event("error", "", "Session not found")>>)
    ELSE LoopTop(c, Ss, IF r.sid \in DOMAIN F THEN F ELSE DictSet(F, r.sid, FALSE),
                 [r EXCEPT !.next_speaker = Ss[r.sid].next_speaker], O)

\* The beginning of run_with_streaming, up to the first suspension.
RunPrelude(c, Ss, F, r, O) ==
    IF r.sid \notin DOMAIN Ss
    THEN /\ sessions' = Ss
         /\ interrupt_flags' = F
         /\ run' = [run EXCEPT ![c] = [r EXCEPT !.pc = "idle"]]
         /\ Emit(c, O, <<Event("error", "", "Session not found")>>)
    ELSE LoopTop(c, Ss, DictSet(F, r.sid, FALSE),
                 [r EXCEPT !.next_speaker = Ss[r.sid].next_speaker], O)

\* FinishTurn that appends the message without yielding agent_message
FinishTurn_silent(c, full_content) ==
    /\ sessions' = [sessions EXCEPT ![run[c].sid] =
                        AppendAgentMessage(sessions[run[c].sid], run[c].next_speaker,
                                           full_content)]
    /\ run' = [run EXCEPT ![c].pc = "route"]
    /\ Emit(c, out[c], <<>>)
    /\ UNCHANGED interrupt_flags

\* After the async-for over the agent node: the message is appended, turns
\* incremented, agent_message emitted; the run then awaits the router.
FinishTurn(c, full_content) ==
    LET r == run[c]
        speaker == r.next_speaker
        cleaned_content == full_content
    IN  /\ sessions' = [sessions EXCEPT ![r.sid] =
                            AppendAgentMessage(sessions[r.sid], speaker, cleaned_content)]
        /\ run' = [run EXCEPT ![c].pc = "route"]
        /\ Emit(c, out[c], <<Event("agent_message", AgentLetter(speaker), cleaned_content)>>)
        /\ UNCHANGED interrupt_flags

\* The agent node yields (full_response, True): the interrupt check of the
\* async-for body runs, then full_content is taken over.
FinalYield(c, full_response) ==
    IF FlagGet(interrupt_flags, run[c].sid)
    THEN FinishTurn(c, "")
    ELSE FinishTurn(c, full_response)

\* llm.astream delivers a non-empty chunk to the agent node.
StreamChunk(c) ==
    /\ run[c].pc = "stream"
    /\ Do(c, "StreamChunk", run[c].sid)
    /\ IF FlagGet(interrupt_flags, run[c].sid)
       THEN FinishTurn(c, "")
       ELSE /\ run' = [run EXCEPT ![c].chunks = @ + 1, ![c].full_response = "text"]
            /\ Emit(c, out[c], <<Event("streaming_chunk",
                                        AgentLetter(run[c].next_speaker), "text")>>)
            /\ UNCHANGED <<sessions, interrupt_flags>>

\* llm.astream ends.  agent_a yields the final tuple; agent_b first retries
\* without streaming when nothing was received.
StreamEnd(c) ==
    /\ run[c].pc = "stream"
    /\ Do(c, "StreamEnd", run[c].sid)
    /\ IF run[c].next_speaker = "agent_b" /\ run[c].full_response = ""
       THEN /\ run' = [run EXCEPT ![c].pc = "retry"]
            /\ UNCHANGED <<sessions, interrupt_flags, out, yielded>>
       ELSE FinalYield(c, run[c].full_response)

\* llm.astream raises: the exception leaves the agent node and
\* run_with_streaming and is caught by the handler, which sends an error.
StreamFail(c) ==
    /\ run[c].pc = "stream"
    /\ Do(c, "StreamFail", run[c].sid)
    /\ run' = [run EXCEPT ![c].pc = "idle"]
    /\ SendJson(c, out[c], <<Event("error", "", "Failed: generation error")>>)
    /\ UNCHANGED <<sessions, interrupt_flags>>

\* agent_b's non-streaming retry returns: with content it is yielded as one
\* chunk; without content the final tuple is empty.
RetryDone(c, content) ==
    /\ run[c].pc = "retry"
    /\ Do(c, "RetryDone", run[c].sid)
    /\ IF content = ""
       THEN FinalYield(c, "")
       ELSE IF FlagGet(interrupt_flags, run[c].sid)
       THEN FinishTurn(c, "")
       ELSE /\ run' = [run EXCEPT ![c].pc = "final", ![c].full_response = content]
            /\ Emit(c, out[c], <<Event("streaming_chunk", "b", content)>>)
            /\ UNCHANGED <<sessions, interrupt_flags>>

\* agent_b's non-streaming retry raises: the exception is logged and
\* swallowed inside the node, which then yields the empty final tuple.
RetryFail(c) ==
    /\ run[c].pc = "retry"
    /\ Do(c, "RetryFail", run[c].sid)
    /\ FinalYield(c, "")

\* agent_b resumes after the retry's chunk was sent and yields the final tuple.
RetryFinal(c) ==
    /\ run[c].pc = "final"
    /\ Do(c, "RetryFinal", run[c].sid)
    /\ FinalYield(c, run[c].full_response)

\* The router call returns; next_speaker is stored and the loop goes on.
Route(c, llm) ==
    /\ run[c].pc = "route"
    /\ Do(c, "Route", run[c].sid)
    /\ LET sid == run[c].sid
           next_speaker == smart_route_next_speaker(sessions[sid], llm)
           Ss == [sessions EXCEPT ![sid].next_speaker = next_speaker]
           r == [run[c] EXCEPT !.next_speaker = next_speaker,
                               !.rule_only = @ /\ llm = "fail"]
       IN  IF executor = "run_single_turn"
           THEN run_single_turn_stop(c, Ss, interrupt_flags, r, out[c])
           ELSE LoopTop(c, Ss, interrupt_flags, r, out[c])

\* The evaluator node streams n chunks (no interrupt check in this loop, no
\* read of shared state) and yields its final tuple: the chunks are sent,
\* the message is appended, the evaluation is sent.
EvalEnd(c, n) ==
    /\ run[c].pc = "eval"
    /\ Do(c, "EvalEnd", run[c].sid)
    /\ LET full_content == IF n = 0 THEN "" ELSE "text"
           chunks == [i \in 1..n |-> Event("streaming_chunk", "evaluator", "text")]
       IN  /\ sessions' = [sessions EXCEPT ![run[c].sid] =
                               AppendEvaluation(sessions[run[c].sid], full_content)]
           /\ run' = [run EXCEPT ![c].pc = "cleanup", ![c].chunks = n,
                                 ![c].full_response = full_content]
           /\ Emit(c, out[c], Append(chunks, Event("evaluation", "", full_content)))
    /\ UNCHANGED interrupt_flags

\* The evaluator's llm.astream raises.
EvalFail(c) ==
    /\ run[c].pc = "eval"
    /\ Do(c, "EvalFail", run[c].sid)
    /\ run' = [run EXCEPT ![c].pc = "idle"]
    /\ SendJson(c, out[c], <<Event("error", "", "Failed: generation error")>>)
    /\ UNCHANGED <<sessions, interrupt_flags>>

\* Cleanup that empties the whole flag dict
Cleanup_clears_all(c) ==
    /\ run[c].pc = "cleanup"
    /\ Do(c, "Cleanup", run[c].sid)
    /\ interrupt_flags' = <<>>
    /\ run' = [run EXCEPT ![c].pc = "idle"]
    /\ UNCHANGED <<sessions, out, yielded>>

\* Cleanup that asks for the human's input after the evaluation
Cleanup_waits_for_input(c) ==
    /\ run[c].pc = "cleanup"
    /\ Do(c, "Cleanup", run[c].sid)
    /\ interrupt_flags' = DictDel(interrupt_flags, run[c].sid)
    /\ run' = [run EXCEPT ![c].pc = "idle"]
    /\ Emit(c, out[c], <<Event("waiting_for_input", "",
                                determine_expected_role(sessions[run[c].sid]))>>)
    /\ UNCHANGED sessions

\* After the evaluation event was sent: the flag is deleted, the run ends.
Cleanup(c) ==
    /\ run[c].pc = "cleanup"
    /\ Do(c, "Cleanup", run[c].sid)
    /\ interrupt_flags' = DictDel(interrupt_flags, run[c].sid)
    /\ run' = [run EXCEPT ![c].pc = "idle"]
    /\ UNCHANGED <<sessions, out, yielded>>

\* ---------------------------------------------------- websocket handlers
\* A connection handles one client message at a time (main.py awaits the
\* handler before the next receive): handlers begin at pc = "idle".

\* a receive loop that hands a message to its handler while the previous
\* handler is still running
Receive_while_running(c) == run[c].pc \notin {"closed", "start"}

\* websocket.receive() returns the next client message of connection c
Receive(c) == run[c].pc = "idle"

\* what StartSessionMessage accepts for (mode, user_role): user_role is
\* optional in either mode
StartInputs == {<<"mediator", NoRole>>, <<"participant", "agent_a">>,
                <<"participant", NoRole>>}

UserRoles == {"mediator", "agent_a", "agent_b"}

handle_start_session(c, mode, user_role) ==
    /\ Receive(c)
    /\ NewIds \ DOMAIN sessions # {}
    /\ LET sid == FreshId(sessions)
       IN  /\ Do(c, "handle_start_session", sid)
           /\ sessions' = start_session(sessions, mode, user_role)
           /\ run' = [run EXCEPT ![c] = [NewRun("start_session", sid, "ok") EXCEPT !.pc = "start"]]
           /\ SendJson(c, <<>>, <<Event("session_started", "", "")>>)
           /\ UNCHANGED interrupt_flags

\* handle_start_session after session_started was sent: the run begins
RunStart(c) ==
    /\ run[c].pc = "start"
    /\ Do(c, "RunStart", run[c].sid)
    /\ RunPrelude(c, sessions, interrupt_flags, run[c], out[c])

handle_continue(c, sid) ==
    /\ Receive(c)
    /\ Do(c, "handle_continue", sid)
    /\ RunPrelude(c, sessions, interrupt_flags, NewRun("continue", sid, "none"), <<>>)

handle_user_message(c, sid, role) ==
    /\ Receive(c)
    /\ Do(c, "handle_user_message", sid)
    /\ LET res == add_human_message(sessions, sid, role)
       IN  IF ~res.ret
           THEN /\ run' = [run EXCEPT ![c] = NewRun("user_message", sid, "not_found")]
                /\ SendJson(c, <<>>, <<Event("error", "", "Session not found")>>)
                /\ UNCHANGED <<sessions, interrupt_flags>>
           ELSE RunPrelude(c, res.sessions, interrupt_flags,
                           NewRun("user_message", sid, "ok"), <<>>)

handle_stop(c, sid) ==
    /\ Receive(c)
    /\ Do(c, "handle_stop", sid)
    /\ LET res == stop_session(sessions, sid)
       IN  IF ~res.ret
           THEN /\ run' = [run EXCEPT ![c] = NewRun("stop", sid, "not_found")]
                /\ SendJson(c, <<>>, <<Event("error", "", "Session not found")>>)
                /\ UNCHANGED <<sessions, interrupt_flags>>
           ELSE RunPrelude(c, res.sessions, interrupt_flags, NewRun("stop", sid, "ok"), <<>>)

handle_request_evaluation(c, sid) ==
    /\ Receive(c)
    /\ Do(c, "handle_request_evaluation", sid)
    /\ LET res == stop_session(sessions, sid)
       IN  RunPrelude(c, res.sessions, interrupt_flags,
                      NewRun("request_evaluation", sid, IF res.ret THEN "ok" ELSE "not_found"),
                      <<>>)

handle_interrupt(c, sid) ==
    /\ Receive(c)
    /\ Do(c, "handle_interrupt", sid)
    /\ LET res == interrupt_session(sessions, interrupt_flags, sid)
       IN  /\ sessions' = res.sessions
           /\ interrupt_flags' = res.flags
           /\ run' = [d \in Conns |->
                        IF d = c
                        THEN NewRun("interrupt", sid, IF res.ret THEN "ok" ELSE "not_found")
                        ELSE IF res.ret /\ run[d].sid = sid /\ InAgentNode(run[d])
                        THEN [run[d] EXCEPT !.intr = TRUE]
                        ELSE run[d]]
           /\ SendJson(c, <<>>, IF res.ret
                                 THEN <<Event("interrupted", "", ""),
                                        Event("waiting_for_input", "", "mediator")>>
                                 ELSE <<Event("error", "", "Session not found")>>)

\* what a client can send that is no well-formed message: a type no branch
\* handles, a known type whose fields fail validation, a text that is not JSON
Malformed == {"unknown_type", "invalid_fields", "not_json"}

\* websocket_endpoint and handle_websocket_message on a malformed message.
\* json.loads is called outside any handler: its exception ends the receive
\* loop of the endpoint, whose except branch only unregisters the client.
handle_malformed(c, kind) ==
    /\ Receive(c)
    /\ Do(c, "handle_malformed", 0)
    /\ IF kind = "not_json"
       THEN /\ run' = [run EXCEPT ![c] = [NewRun("malformed", 0, kind) EXCEPT !.pc = "closed"]]
            /\ SendJson(c, <<>>, <<>>)
       ELSE /\ run' = [run EXCEPT ![c] = NewRun("malformed", 0, kind)]
            /\ SendJson(c, <<>>, <<Event("error", "",
                                         IF kind = "unknown_type" THEN "Unknown message type"
                                         ELSE "Failed: validation error")>>)
    /\ UNCHANGED <<sessions, interrupt_flags>>

\* ------------------------------------------------------- specification
Init ==
    /\ sessions = <<>>
    /\ interrupt_flags = <<>>
    /\ run = [c \in Conns |-> IdleRun]
    /\ out = [c \in Conns |-> <<>>]
    /\ yielded = [c \in Conns |-> <<>>]
    /\ last = Step("none", "Init", 0)
    /\ steps = 0
    /\ executor = "run_with_streaming"

Next ==
    \/ \E c \in Conns, inp \in StartInputs : handle_start_session(c, inp[1], inp[2])
    \/ \E c \in Conns : RunStart(c)
    \/ \E c \in Conns, sid \in SessionIds : handle_continue(c, sid)
    \/ \E c \in Conns, sid \in SessionIds, role \in UserRoles : handle_user_message(c, sid, role)
    \/ \E c \in Conns, sid \in SessionIds : handle_stop(c, sid)
    \/ \E c \in Conns, sid \in SessionIds : handle_request_evaluation(c, sid)
    \/ \E c \in Conns, sid \in SessionIds : handle_interrupt(c, sid)
    \/ \E c \in Conns, kind \in Malformed : handle_malformed(c, kind)
    \/ \E c \in Conns : StreamChunk(c)
    \/ \E c \in Conns : StreamEnd(c)
    \/ \E c \in Conns : StreamFail(c)
    \/ \E c \in Conns, content \in {"", "text"} : RetryDone(c, content)
    \/ \E c \in Conns : RetryFail(c)
    \/ \E c \in Conns : RetryFinal(c)
    \/ \E c \in Conns, llm \in SmartOutcomes : Route(c, llm)
    \/ \E c \in Conns, n \in 0..MaxChunks : EvalEnd(c, n)
    \/ \E c \in Conns : EvalFail(c)
    \/ \E c \in Conns : Cleanup(c)

Spec == Init /\ [][Next]_vars

\* ------------------------------------------------- single-turn mode
\* The handlers iterate over run_single_turn: the same state machine with
\* the executor's loop bounded to one turn.
SingleInit ==
    /\ sessions = <<>>
    /\ interrupt_flags = <<>>
    /\ run = [c \in Conns |-> IdleRun]
    /\ out = [c \in Conns |-> <<>>]
    /\ yielded = [c \in Conns |-> <<>>]
    /\ last = Step("none", "Init", 0)
    /\ steps = 0
    /\ executor = "run_single_turn"

SingleSpec == SingleInit /\ [][Next]_vars

\* ----------------------------------------------------- two sessions
\* A second session, 3, is in the store from the beginning: a client that
\* has disconnected since created it with start_session (mediator mode), and
\* nothing ran on it.  The clients address it and the session they create.
OtherId == 3

TwoIds == NewIds \cup {OtherId}

TwoInit ==
    /\ sessions = [i \in {OtherId} |->
                      [messages |-> <<Msg("system", TRUE, "text")>>,
                       mode |-> "mediator",
                       next_speaker |-> "agent_a",
                       turns |-> 0,
                       user_role |-> NoRole,
                       should_stop |-> FALSE]]
    /\ interrupt_flags = <<>>
    /\ run = [c \in Conns |-> IdleRun]
    /\ out = [c \in Conns |-> <<>>]
    /\ yielded = [c \in Conns |-> <<>>]
    /\ last = Step("none", "Init", 0)
    /\ steps = 0
    /\ executor = "run_with_streaming"

TwoNext ==
    \/ \E c \in Conns : handle_start_session(c, "mediator", NoRole)
    \/ \E c \in Conns : RunStart(c)
    \/ \E c \in Conns, sid \in TwoIds : handle_continue(c, sid)
    \/ \E c \in Conns, sid \in TwoIds : handle_user_message(c, sid, "mediator")
    \/ \E c \in Conns, sid \in TwoIds : handle_stop(c, sid)
    \/ \E c \in Conns, sid \in TwoIds : handle_request_evaluation(c, sid)
    \/ \E c \in Conns, sid \in TwoIds : handle_interrupt(c, sid)
    \/ \E c \in Conns : StreamChunk(c)
    \/ \E c \in Conns : StreamEnd(c)
    \/ \E c \in Conns : StreamFail(c)
    \/ \E c \in Conns, content \in {"", "text"} : RetryDone(c, content)
    \/ \E c \in Conns : RetryFail(c)
    \/ \E c \in Conns : RetryFinal(c)
    \/ \E c \in Conns, llm \in SmartOutcomes : Route(c, llm)
    \/ \E c \in Conns, n \in 0..MaxChunks : EvalEnd(c, n)
    \/ \E c \in Conns : EvalFail(c)
    \/ \E c \in Conns : Cleanup(c)

TwoSpec == TwoInit /\ [][TwoNext]_vars

\* ------------------------------------------- the router called directly
\* The states route_next_speaker is applied to: every combination of its
\* inputs, the transcript being empty, one message, or the seed and one message.
LastMsgs == {Msg("system", TRUE, "text"), Msg("mediator", TRUE, "text"),
             Msg("agent_a", TRUE, "text"), Msg("agent_b", TRUE, "text"),
             Msg("agent_a", FALSE, "text"), Msg("agent_b", FALSE, "text"),
             Msg("evaluator", FALSE, "text")}

RouterTranscripts ==
    {<<>>} \cup {<<m>> : m \in LastMsgs}
           \cup {<<Msg("system", TRUE, "text"), m>> : m \in LastMsgs}

RouterStates ==
    [messages : RouterTranscripts,
     mode : {"mediator", "participant"},
     next_speaker : {NoSpeaker} \cup Roles,
     turns : 0..MaxTurns,
     user_role : {NoRole, "agent_a", "agent_b"},
     should_stop : BOOLEAN]

RouterInit ==
    /\ sessions \in {[i \in {1} |-> st] : st \in RouterStates}
    /\ interrupt_flags = <<>>
    /\ run = [c \in Conns |-> IdleRun]
    /\ out = [c \in Conns |-> <<>>]
    /\ yielded = [c \in Conns |-> <<>>]
    /\ last = Step("none", "Init", 0)
    /\ steps = 0
    /\ executor = "run_with_streaming"

\* a caller applies route_next_speaker to the stored state and keeps the answer
CallRouter(c) ==
    /\ run[c].op = "none"
    /\ run' = [run EXCEPT ![c] =
                 [NewRun("route_next_speaker", 1, "none") EXCEPT
                     !.next_speaker = route_next_speaker(sessions[1])]]
    /\ Do(c, "route_next_speaker", 1)
    /\ UNCHANGED <<sessions, interrupt_flags, out, yielded>>

\* a caller applies should_continue to the stored state and keeps the answer
CallShouldContinue(c) ==
    /\ run[c].op = "none"
    /\ run' = [run EXCEPT ![c] =
                 NewRun("should_continue", 1, should_continue(sessions[1]))]
    /\ Do(c, "should_continue", 1)
    /\ UNCHANGED <<sessions, interrupt_flags, out, yielded>>

RouterNext ==
    \E c \in Conns :
        \/ CallRouter(c)
        \/ CallShouldContinue(c)

RouterSpec == RouterInit /\ [][RouterNext]_vars

\* ------------------------------------ _clean_agent_response called directly
\* Texts are sequences of characters: the letter of the persona's name in
\* upper and lower case, ':', '*', a blank and one other character.
MaxText == 6

Chars == {"L", "l", ":", "*", " ", "x"}

\* str.lower / str.upper on one character
lower_char(ch) == IF ch = "L" THEN "l" ELSE ch

upper_char(ch) == IF ch = "l" THEN "L" ELSE ch

lower(str) == [i \in 1..Len(str) |-> lower_char(str[i])]

upper(str) == [i \in 1..Len(str) |-> upper_char(str[i])]

\* str.strip(): leading and trailing whitespace removed
RECURSIVE lstrip(_)
lstrip(str) == IF str # <<>> /\ Head(str) = " " THEN lstrip(Tail(str)) ELSE str

RECURSIVE rstrip(_)
rstrip(str) ==
    IF str # <<>> /\ str[Len(str)] = " " THEN rstrip(SubSeq(str, 1, Len(str) - 1)) ELSE str

strip(str) == rstrip(lstrip(str))

startswith(str, prefix) ==
    Len(prefix) <= Len(str) /\ SubSeq(str, 1, Len(prefix)) = prefix

prefixes_to_remove(agent_name) ==
    << agent_name \o <<":">>,
       lower(agent_name) \o <<":">>,
       upper(agent_name) \o <<":">>,
       <<"*", "*">> \o agent_name \o <<"*", "*", ":">>,
       <<"*">> \o agent_name \o <<"*", ":">> >>

\* the for loop over the prefixes from index i on, with its break
RECURSIVE remove_prefix(_, _, _)
remove_prefix(content, prefixes, i) ==
    IF i > Len(prefixes) THEN content
    ELSE IF startswith(lower(content), lower(prefixes[i]))
    THEN strip(SubSeq(content, Len(prefixes[i]) + 1, Len(content)))
    ELSE remove_prefix(content, prefixes, i + 1)

\* _clean_agent_response that compares the prefix without lower-casing
_clean_agent_response_exact_case(content, agent_name) ==
    LET stripped == strip(content)
        prefix == agent_name \o <<":">>
    IN  IF startswith(stripped, prefix)
        THEN strip(SubSeq(stripped, Len(prefix) + 1, Len(stripped)))
        ELSE remove_prefix(stripped, SubSeq(prefixes_to_remove(agent_name), 4, 5), 1)

_clean_agent_response(content, agent_name) ==
    remove_prefix(strip(content), prefixes_to_remove(agent_name), 1)

RECURSIVE TextsUpTo(_)
TextsUpTo(n) ==
    IF n = 0 THEN {<<>>}
    ELSE LET shorter == TextsUpTo(n - 1)
         IN  shorter \cup {Append(t, ch) : t \in {u \in shorter : Len(u) = n - 1}, ch \in Chars}

\* A session whose agent_a is named "L"; the agent node of each connection's
\* run has yielded its final tuple with some raw text.
CleanInit ==
    /\ sessions = [i \in {1} |->
                      [messages |-> <<Msg("system", TRUE, "text")>>,
                       mode |-> "mediator",
                       next_speaker |-> "agent_a",
                       turns |-> 0,
                       user_role |-> NoRole,
                       should_stop |-> FALSE,
                       agent_a_config |-> [name |-> <<"L">>]]]
    /\ interrupt_flags = <<>>
    /\ \E text \in TextsUpTo(MaxText) :
          run = [c \in Conns |-> [IdleRun EXCEPT !.full_response = text]]
    /\ out = [c \in Conns |-> <<>>]
    /\ yielded = [c \in Conns |-> <<>>]
    /\ last = Step("none", "Init", 0)
    /\ steps = 0
    /\ executor = "run_with_streaming"

\* lines 305-327 on the raw text: the cleaned content is what agent_message carries
CallClean(c) ==
    /\ run[c].op = "none"
    /\ Do(c, "_clean_agent_response", 1)
    /\ LET agent_name == sessions[1].agent_a_config.name
           cleaned_content == _clean_agent_response(run[c].full_response, agent_name)
       IN  /\ run' = [run EXCEPT ![c].op = "_clean_agent_response"]
           /\ Emit(c, <<>>, <<Event("agent_message", "a", cleaned_content)>>)
    /\ UNCHANGED <<sessions, interrupt_flags>>

CleanNext == \E c \in Conns : CallClean(c)

CleanSpec == CleanInit /\ [][CleanNext]_vars

\* --------------------------------------- runs with the rule-based router
\* The router reads the stored next_speaker, should_stop, mode, user_role,
\* the name of the last message and turns mod 4.  Within one run with finite
\* streams and no client message only next_speaker (2 agents), the last name
\* (2 agents) and turns mod 4 change: a run that has not paused after this
\* many turns has repeated one of these 16 configurations and never pauses.
MaxRuleTurns == 17

\* The while loop of run_with_streaming from its top, every router call
\* answered by route_next_speaker and every stream ending with some text:
\* TRUE when the loop is left (human, evaluator, end, or should_stop leading
\* to the evaluator turn) within k agent turns.
RECURSIVE RuleLoopExits(_, _, _)
RuleLoopExits(state, next_speaker, k) ==
    IF next_speaker \in {"human", "evaluator", "end"} THEN TRUE
    ELSE IF state.should_stop THEN TRUE
    ELSE IF k = 0 THEN FALSE
    ELSE LET appended == AppendAgentMessage(state, next_speaker, "text")
             routed == route_next_speaker(appended)
         IN  RuleLoopExits([appended EXCEPT !.next_speaker = routed], routed, k - 1)

\* a run started on state
RuleRunEnds(state) == RuleLoopExits(state, state.next_speaker, MaxRuleTurns)

\* =================================================================
\* Properties
\* =================================================================
IsPrefix(s, t) == Len(s) <= Len(t) /\ SubSeq(t, 1, Len(s)) = s

LastEvent(c) == out[c][Len(out[c])]

\* the events a step appends to the output of connection c
NewEvents(c) == SubSeq(out'[c], Len(out[c]) + 1, Len(out'[c]))

AgentEvent(e, types) == e.type \in types /\ e.agent \in {"a", "b"}

HandlerActs == {"handle_start_session", "handle_continue", "handle_user_message",
                "handle_stop", "handle_request_evaluation", "handle_interrupt",
                "handle_malformed"}

\* a client message was received in this step
HandlerStep == steps' # steps /\ last'.act \in HandlerActs

\* connection c executed a stretch of its run in this step
RunStep(c) == steps' # steps /\ last'.conn = c /\ last'.act \notin HandlerActs

GenerationError == Event("error", "", "Failed: generation error")

\* C1: when the interrupt flag is set while the run is inside an agent node,
\* the run's next stretch appends no message, leaves turns alone and emits
\* no agent_message.
C1_InterruptDiscardsTurn ==
    [][\A c \in Conns :
          (InAgentNode(run[c]) /\ FlagGet(interrupt_flags, run[c].sid) /\ RunStep(c))
          => /\ sessions'[run[c].sid].messages = sessions[run[c].sid].messages
             /\ sessions'[run[c].sid].turns = sessions[run[c].sid].turns
             /\ \A i \in 1..Len(NewEvents(c)) : NewEvents(c)[i].type # "agent_message"]_vars

\* the agents of the typing events of connection c's current run, in order
TypingAgents(c) == SelectSeq(out[c], LAMBDA e : AgentEvent(e, {"typing"}))

\* the transcript holds no human message besides the seed
Unattended(state) == \A i \in 2..Len(state.messages) : ~state.messages[i].human

\* C2: in mediator mode, without stop, interrupt or human message, a run
\* started by start_session whose router calls all take the rule-based path
\* has agent turns a, b, a, b, ..., and it pauses for the human only right
\* after an agent_b turn with turns mod 4 = 0.
C2_MediatorCadence ==
    \A c \in Conns :
        LET state == sessions[run[c].sid]
            T == TypingAgents(c)
        IN  (/\ run[c].op = "start_session"
             /\ run[c].rule_only
             /\ state.mode = "mediator"
             /\ ~state.should_stop
             /\ Unattended(state)
             /\ Len(T) > 0 /\ T[1].agent = "a")
            => /\ \A i \in 1..Len(T) : T[i].agent = (IF i % 2 = 1 THEN "a" ELSE "b")
               /\ LastEvent(c).type = "waiting_for_input"
                  => /\ state.turns % 4 = 0
                     /\ state.messages[Len(state.messages)].name = "agent_b"

\* C3: the run that handle_stop / handle_request_evaluation start on an
\* existing session enters the evaluator turn, whatever next_speaker is stored.
C3_StopForcesEvaluation ==
    \A c \in Conns :
        (/\ last.conn = c
         /\ last.act \in {"handle_stop", "handle_request_evaluation"}
         /\ run[c].ret = "ok")
        => /\ run[c].pc = "eval"
           /\ LastEvent(c) = Event("typing", "evaluator", "")

\* C4: route_next_speaker returns evaluator for every state with should_stop.
C4_StopRoutesToEvaluator ==
    \A c \in Conns :
        (run[c].op = "route_next_speaker" /\ sessions[1].should_stop)
        => run[c].next_speaker = "evaluator"

C4_Witness ==
    \E c \in Conns :
        /\ run[c].op = "route_next_speaker"
        /\ sessions[1].should_stop
        /\ sessions[1].next_speaker = "human"
        /\ sessions[1].mode = "participant"
        /\ run[c].next_speaker = "evaluator"

\* C5: every step keeps every session and keeps its transcript as a prefix
\* of the new transcript.
C5_TranscriptAppendOnly ==
    [][\A sid \in DOMAIN sessions :
          /\ sid \in DOMAIN sessions'
          /\ IsPrefix(sessions[sid].messages, sessions'[sid].messages)]_vars

\* a transcript with a human and an agent message after the seed, held by a
\* session one of whose runs has just failed
C5_Witness ==
    \E sid \in DOMAIN sessions, c \in Conns :
        /\ Len(sessions[sid].messages) >= 3
        /\ \E i \in 2..Len(sessions[sid].messages) : sessions[sid].messages[i].human
        /\ \E i \in 2..Len(sessions[sid].messages) : ~sessions[sid].messages[i].human
        /\ last = Step(c, "StreamFail", sid)

\* C6: a step in which the generation capability raises inside an agent
\* node sends an error event and leaves the whole session as it was; the
\* stretches of the node before it left the session alone too.
C6_GenerationFailureDiscardsTurn ==
    [][\A c \in Conns :
          /\ (RunStep(c) /\ last'.act \in {"StreamFail", "RetryFail"})
             => /\ sessions' = sessions
                /\ NewEvents(c) = <<GenerationError>>
          /\ (RunStep(c) /\ InAgentNode(run[c]) /\ InAgentNode(run'[c]))
             => sessions' = sessions]_vars

\* C7: no two runs of one session are active at the same time.
C7_RunsSerialized ==
    \A c, d \in Conns :
        (c # d /\ Active(run[c]) /\ Active(run[d])) => run[c].sid # run[d].sid

\* C8: add_human_message is applied to a session only while no run of that
\* session is executing.
C8_HumanMessageWaitsForPause ==
    [][(HandlerStep /\ last'.act = "handle_user_message" /\ run'[last'.conn].ret = "ok")
          => ~\E d \in Conns : Active(run[d]) /\ run[d].sid = last'.sid]_vars

\* C9: once interrupt_session was called while a run was inside an agent
\* node, that run emits no further chunk of an agent and starts no agent turn.
C9_InterruptStopsStreaming ==
    [][\A c \in Conns :
          (run[c].intr /\ RunStep(c))
          => \A i \in 1..Len(NewEvents(c)) :
                 ~AgentEvent(NewEvents(c)[i], {"streaming_chunk", "typing"})]_vars

\* C10: handling an interrupt for a stored session sets its flag and its
\* should_stop and returns true; for an unknown id it returns false and
\* leaves the store and the flags as they were.
C10_InterruptSession ==
    [][(HandlerStep /\ last'.act = "handle_interrupt")
          => LET sid == last'.sid
                 c == last'.conn
             IN  IF sid \in DOMAIN sessions
                 THEN /\ sid \in DOMAIN interrupt_flags' /\ interrupt_flags'[sid]
                      /\ sessions'[sid].should_stop
                      /\ run'[c].ret = "ok"
                 ELSE /\ run'[c].ret = "not_found"
                      /\ sessions' = sessions
                      /\ interrupt_flags' = interrupt_flags]_vars

\* an interrupt for an id that is not in the store has just been handled,
\* after one for the stored session that met a run inside an agent node
C10_Witness ==
    \E c, d \in Conns :
        /\ last = Step(c, "handle_interrupt", 2)
        /\ run[c].ret = "not_found"
        /\ 2 \notin DOMAIN interrupt_flags
        /\ run[d].intr
        /\ interrupt_flags[1]
        /\ sessions[1].should_stop

\* the client messages whose handler drives run_with_streaming
RunOps == {"start_session", "continue", "user_message", "stop", "request_evaluation"}

\* connection c's run of a stored session ended in this step
RunEnds(c) ==
    /\ steps' # steps /\ last'.conn = c
    /\ run'[c].op \in RunOps
    /\ run'[c].sid \in DOMAIN sessions'
    /\ run[c].pc # "idle" \/ last'.act \in HandlerActs
    /\ run'[c].pc = "idle"

\* C11: when a run of a session ends (pause for the human, after the
\* evaluation, or aborted by a generation failure) the interrupt flags hold
\* no entry for that session.
C11_FlagClearedAtRunEnd ==
    [][\A c \in Conns :
          RunEnds(c) => run'[c].sid \notin DOMAIN interrupt_flags']_vars

\* the messages of the transcript that an agent node generated
AgentGenerated(state) ==
    {i \in 1..Len(state.messages) :
        ~state.messages[i].human /\ state.messages[i].name \in {"agent_a", "agent_b"}}

\* C12: after every step, turns of every session is the number of
\* agent-generated messages of its transcript; turns never decreases, and a
\* step that handles a user_message or ends the evaluator turn leaves it alone.
C12_TurnsCountAgentMessages ==
    [][\A sid \in DOMAIN sessions' :
          /\ sessions'[sid].turns = Cardinality(AgentGenerated(sessions'[sid]))
          /\ sid \in DOMAIN sessions =>
                /\ sessions'[sid].turns >= sessions[sid].turns
                /\ (steps' # steps /\ last'.sid = sid
                    /\ last'.act \in {"handle_user_message", "EvalEnd"})
                   => sessions'[sid].turns = sessions[sid].turns]_vars

\* a transcript with a human message, agent messages and an evaluation
C12_Witness ==
    \E sid \in DOMAIN sessions :
        LET m == sessions[sid].messages
        IN  /\ sessions[sid].turns >= 1
            /\ \E i \in 2..Len(m) : m[i].human
            /\ m[Len(m)].name = "evaluator"
            /\ last.act = "EvalEnd"

\* C13: every stored session in participant mode has user_role agent_a or
\* agent_b.
C13_ParticipantHasUserRole ==
    \A sid \in DOMAIN sessions :
        sessions[sid].mode = "participant" => sessions[sid].user_role \in {"agent_a", "agent_b"}

\* C14: next_speaker of every stored session is one of agent_a, agent_b,
\* human, evaluator, end.
C14_NextSpeakerInRoles ==
    \A sid \in DOMAIN sessions : sessions[sid].next_speaker \in Roles

\* the router's answer evaluator has just been stored in a session that
\* a human message had set to an agent before
C14_Witness ==
    \E sid \in DOMAIN sessions :
        /\ last.act = "Route" /\ last.sid = sid
        /\ sessions[sid].next_speaker = "evaluator"
        /\ \E i \in 2..Len(sessions[sid].messages) : sessions[sid].messages[i].human

\* the events of connection c's current run: its output without the
\* session_started that handle_start_session sends before the run
RunEvents(c) ==
    IF out[c] # <<>> /\ out[c][1].type = "session_started" THEN Tail(out[c]) ELSE out[c]

C16_EmptyResultRetriedOnce ==
    [][\A c \in Conns :
          RunStep(c) =>
             /\ (last'.act = "StreamEnd" /\ run[c].full_response = "")
                => /\ run'[c].pc = "retry"
                   /\ NewEvents(c) = <<>>
                   /\ sessions' = sessions
             /\ run[c].pc = "retry" => run'[c].pc # "retry"
             /\ (last'.act = "RetryDone" /\ run'[c].pc # "final")
                => /\ run'[c].pc = "route"
                   /\ NewEvents(c) = <<Event("agent_message",
                                             AgentLetter(run[c].next_speaker), "")>>]_vars

SessionNotFound == Event("error", "", "Session not found")

\* C17: handling a user_message, continue, stop, request_evaluation or
\* interrupt that names an id absent from the store sends exactly the error
\* "Session not found" and leaves the store and the interrupt flags as they
\* were.
C17_UnknownSessionRejected ==
    [][(/\ HandlerStep
        /\ last'.act \in {"handle_user_message", "handle_continue", "handle_stop",
                          "handle_request_evaluation", "handle_interrupt"}
        /\ last'.sid \notin DOMAIN sessions)
       => /\ out'[last'.conn] = <<SessionNotFound>>
          /\ run'[last'.conn].pc = "idle"
          /\ sessions' = sessions
          /\ interrupt_flags' = interrupt_flags]_vars

\* request_evaluation for an unknown id has just been answered while a
\* stored session has a flag entry and a run in progress
C17_Witness ==
    \E c, d \in Conns :
        /\ last = Step(c, "handle_request_evaluation", 2)
        /\ out[c] = <<SessionNotFound>>
        /\ DOMAIN sessions = {1}
        /\ DOMAIN interrupt_flags = {1}
        /\ Active(run[d]) /\ run[d].sid = 1

\* C18: a malformed or unknown client message is answered with one error
\* event on its connection, changes neither the store nor the flags, and
\* leaves the connection receiving.
C18_MalformedMessageRejected ==
    [][(HandlerStep /\ last'.act = "handle_malformed")
       => LET c == last'.conn
          IN  /\ Len(out'[c]) = 1 /\ out'[c][1].type = "error"
              /\ run'[c].pc = "idle"
              /\ sessions' = sessions
              /\ interrupt_flags' = interrupt_flags]_vars

\* C19: the wire messages of a run are the events its executor yielded, one
\* message per event in the order of the yields, each with the event's type
\* and fields; the only other message is the error the handler itself sends
\* when the executor raised, after them.
C19_EventsSentInOrder ==
    \A c \in Conns :
        run[c].op \in RunOps =>
            LET W == RunEvents(c)
                Y == yielded[c]
            IN  /\ Len(W) >= Len(Y)
                /\ \A i \in 1..Len(Y) : W[i] = Y[i]
                /\ Len(W) > Len(Y) => (Len(W) = Len(Y) + 1 /\ W[Len(W)].type = "error")

\* a run that yielded the events of an agent turn and of the evaluator turn
C19_Witness ==
    \E c \in Conns :
        /\ run[c].op \in RunOps
        /\ Len(yielded[c]) >= 5
        /\ \E i \in 1..Len(yielded[c]) : yielded[c][i].type = "agent_message"
        /\ \E i \in 1..Len(yielded[c]) : yielded[c][i].type = "streaming_chunk"
        /\ yielded[c][Len(yielded[c])].type = "evaluation"
        /\ Len(RunEvents(c)) = Len(yielded[c])

\* C20: a step of an operation on one session (a run, a human message, a
\* stop, an interrupt, the creation) leaves every other stored session and
\* its interrupt flag entry as they were.
C20_SessionsIndependent ==
    [][\A y \in DOMAIN sessions :
          (steps' # steps /\ last'.sid # y)
          => /\ y \in DOMAIN sessions' /\ sessions'[y] = sessions[y]
             /\ (y \in DOMAIN interrupt_flags) = (y \in DOMAIN interrupt_flags')
             /\ y \in DOMAIN interrupt_flags => interrupt_flags'[y] = interrupt_flags[y]]_vars

\* the run of session 1 has just deleted its flag after its evaluation while
\* session 3, not stopped, has a run in progress and its flag entry
C20_Witness ==
    \E d \in Conns :
        /\ last.act = "Cleanup" /\ last.sid = 1
        /\ 1 \notin DOMAIN interrupt_flags
        /\ sessions[1].should_stop
        /\ OtherId \in DOMAIN interrupt_flags
        /\ Active(run[d]) /\ run[d].sid = OtherId
        /\ ~sessions[OtherId].should_stop
        /\ Len(sessions[1].messages) # Len(sessions[OtherId].messages)

\* the self-announcements of a persona: plain, bold and italic
SelfPrefixes(name) ==
    {name \o <<":">>, <<"*", "*">> \o name \o <<"*", "*", ":">>, <<"*">> \o name \o <<"*", ":">>}

SameIgnoringCase(s, t) ==
    Len(s) = Len(t) /\ \A i \in 1..Len(s) : lower_char(s[i]) = lower_char(t[i])

\* the self-announcements text begins with, compared case-insensitively
LeadingSelfPrefixes(text, name) ==
    {p \in SelfPrefixes(name) :
        Len(p) <= Len(text) /\ SameIgnoringCase(SubSeq(text, 1, Len(p)), p)}

\* str[i..j] is str without the blanks at its ends
StripsTo(str, i, j) ==
    /\ \A k \in 1..(i - 1) : str[k] = " "
    /\ \A k \in (j + 1)..Len(str) : str[k] = " "
    /\ (i <= j => str[i] # " " /\ str[j] # " ")
    /\ (i > j => i = 1 /\ j = 0 /\ \A k \in 1..Len(str) : str[k] = " ")

IsStripOf(res, str) ==
    \E i \in 1..(Len(str) + 1), j \in 0..Len(str) :
        StripsTo(str, i, j) /\ res = SubSeq(str, i, j)

\* the cleaned content of a finished call on connection c
Cleaned(c) == out[c][1].content

\* C22 as claimed: a text that begins with a self-announcement is returned
\* without it (and without the blanks around the remainder); every other
\* text is returned unchanged.
C22_CleanAsClaimed ==
    \A c \in Conns :
        run[c].op = "_clean_agent_response" =>
            LET text == run[c].full_response
                name == sessions[1].agent_a_config.name
                P == LeadingSelfPrefixes(text, name)
            IN  /\ \A p \in P : IsStripOf(Cleaned(c), SubSeq(text, Len(p) + 1, Len(text)))
                /\ P = {} => Cleaned(c) = text

\* C22 amended: the text is first stripped of the blanks at its ends; when
\* the stripped text begins with a self-announcement the result is the rest,
\* stripped again; otherwise the result is the stripped text.
C22_CleanStripsFirst ==
    \A c \in Conns :
        run[c].op = "_clean_agent_response" =>
            LET text == run[c].full_response
                name == sessions[1].agent_a_config.name
            IN  \E i \in 1..(Len(text) + 1), j \in 0..Len(text) :
                    /\ StripsTo(text, i, j)
                    /\ LET stripped == SubSeq(text, i, j)
                           P == LeadingSelfPrefixes(stripped, name)
                       IN  /\ \A p \in P :
                                 IsStripOf(Cleaned(c),
                                           SubSeq(stripped, Len(p) + 1, Len(stripped)))
                           /\ P = {} => Cleaned(c) = stripped

\* the italic self-announcement in lower case, blanks and a rest
C22_Witness ==
    \E c \in Conns :
        /\ run[c].op = "_clean_agent_response"
        /\ run[c].full_response = <<"*", "l", "*", ":", " ", "x">>
        /\ Cleaned(c) = <<"x">>

\* C23: from every session state the program reaches, a run whose streams
\* are finite and whose router calls take the rule-based path leaves its
\* loop (pause for the human, evaluator turn, end) without a stop or
\* interrupt request.
C23_RuleRunTerminates ==
    \A sid \in DOMAIN sessions : RuleRunEnds(sessions[sid])

\* C24: every waiting_for_input sent to a client carries as expected_role
\* determine_expected_role of the session it is sent for, whether the end of
\* a run or the interrupt handler sends it.
C24_ExpectedRoleOfSession ==
    [][\A c \in Conns : \A i \in DOMAIN NewEvents(c) :
          NewEvents(c)[i].type = "waiting_for_input"
          => /\ last'.sid \in DOMAIN sessions'
             /\ NewEvents(c)[i].content = determine_expected_role(sessions'[last'.sid])]_vars

\* the state route_next_speaker was applied to, its last transcript entry
\* and the answer connection c keeps
Routed(c) == run[c].op = "route_next_speaker"

LastEntry(state) == state.messages[Len(state.messages)]

OtherPersona(role) == IF role = "agent_a" THEN "agent_b" ELSE "agent_a"

Fallback(state) == ~state.should_stop /\ state.next_speaker = NoSpeaker

\* C25: in participant mode with should_stop false and next_speaker unset,
\* the router returns the AI persona after a message the human spoke in the
\* slot user_role, and human after a message the AI persona generated.
C25_ParticipantAlternates ==
    \A c \in Conns :
        LET state == sessions[1]
        IN  (/\ Routed(c)
             /\ Fallback(state)
             /\ state.mode = "participant"
             /\ state.user_role \in {"agent_a", "agent_b"}
             /\ state.messages # <<>>)
            => /\ (LastEntry(state).human /\ LastEntry(state).name = state.user_role)
                  => run[c].next_speaker = OtherPersona(state.user_role)
               /\ (~LastEntry(state).human
                   /\ LastEntry(state).name = OtherPersona(state.user_role))
                  => run[c].next_speaker = "human"

\* C26: in mediator mode with should_stop false and next_speaker unset the
\* router returns agent_b after agent_a; after agent_b human if
\* turns mod 4 = 0 and agent_a otherwise; agent_a after a mediator or system
\* entry and for an empty transcript.
C26_MediatorFallback ==
    \A c \in Conns :
        LET state == sessions[1]
            answer == run[c].next_speaker
        IN  (Routed(c) /\ Fallback(state) /\ state.mode = "mediator")
            => /\ state.messages = <<>> => answer = "agent_a"
               /\ state.messages # <<>>
                  => /\ LastEntry(state).name = "agent_a" => answer = "agent_b"
                     /\ (LastEntry(state).name = "agent_b" /\ state.turns % 4 = 0)
                        => answer = "human"
                     /\ (LastEntry(state).name = "agent_b" /\ state.turns % 4 # 0)
                        => answer = "agent_a"
                     /\ LastEntry(state).name \in {"mediator", "system"}
                        => answer = "agent_a"

\* after agent_b with turns = 3 the fallback has answered agent_a
C26_Witness ==
    \E c \in Conns :
        /\ Routed(c)
        /\ Fallback(sessions[1])
        /\ sessions[1].mode = "mediator"
        /\ sessions[1].messages # <<>>
        /\ LastEntry(sessions[1]) = Msg("agent_b", FALSE, "text")
        /\ sessions[1].turns = 3
        /\ run[c].next_speaker = "agent_a"

\* C27: with should_stop false and next_speaker set, route_next_speaker
\* returns the stored next_speaker, whatever mode, turns and the last
\* transcript entry are.
C27_StoredSpeakerVerbatim ==
    \A c \in Conns :
        (/\ Routed(c)
         /\ ~sessions[1].should_stop
         /\ sessions[1].next_speaker # NoSpeaker)
        => run[c].next_speaker = sessions[1].next_speaker

\* agent_a is stored and returned after an agent_a entry in mediator mode,
\* where the transcript alone would give agent_b
C27_Witness ==
    \E c \in Conns :
        /\ Routed(c)
        /\ ~sessions[1].should_stop
        /\ sessions[1].mode = "mediator"
        /\ sessions[1].next_speaker = "agent_a"
        /\ sessions[1].messages # <<>>
        /\ LastEntry(sessions[1]).name = "agent_a"
        /\ run[c].next_speaker = "agent_a"

\* C28: should_continue returns wait_for_human exactly when
\* route_next_speaker returns human, evaluate exactly when it returns
\* evaluator, end exactly when it returns end, and continue exactly when it
\* returns agent_a or agent_b.
C28_ShouldContinueAgrees ==
    \A c \in Conns :
        run[c].op = "should_continue"
        => LET next_speaker == route_next_speaker(sessions[1])
           IN  /\ run[c].ret = "wait_for_human" <=> next_speaker = "human"
               /\ run[c].ret = "evaluate" <=> next_speaker = "evaluator"
               /\ run[c].ret = "end" <=> next_speaker = "end"
               /\ run[c].ret = "continue" <=> next_speaker \in {"agent_a", "agent_b"}

\* the fallback gives human (participant, the human's turn) and
\* should_continue has answered wait_for_human
C28_Witness ==
    \E c \in Conns :
        /\ run[c].op = "should_continue"
        /\ Fallback(sessions[1])
        /\ sessions[1].mode = "participant"
        /\ run[c].ret = "wait_for_human"

\* C29: add_human_message on an existing session appends exactly one message
\* tagged with the given role, sets next_speaker to agent_a for mediator,
\* agent_b for agent_a and agent_a for agent_b, leaves turns, should_stop,
\* mode and user_role unchanged and returns true; on an unknown session it
\* returns false and no session changes.
C29_AddHumanMessageFrame ==
    [][(steps' # steps /\ last'.act = "handle_user_message")
       => LET sid == last'.sid
              ret == run'[last'.conn].ret
          IN  IF sid \in DOMAIN sessions
              THEN /\ ret = "ok"
                   /\ DOMAIN sessions' = DOMAIN sessions
                   /\ \A other \in DOMAIN sessions \ {sid} : sessions'[other] = sessions[other]
                   /\ \E role \in UserRoles :
                         /\ sessions'[sid].messages
                              = Append(sessions[sid].messages, Msg(role, TRUE, "text"))
                         /\ sessions'[sid].next_speaker
                              = (CASE role = "mediator" -> "agent_a"
                                   [] role = "agent_a" -> "agent_b"
                                   [] role = "agent_b" -> "agent_a")
                   /\ sessions'[sid].turns = sessions[sid].turns
                   /\ sessions'[sid].should_stop = sessions[sid].should_stop
                   /\ sessions'[sid].mode = sessions[sid].mode
                   /\ sessions'[sid].user_role = sessions[sid].user_role
              ELSE /\ ret = "not_found"
                   /\ sessions' = sessions]_vars

\* a message in the slot agent_a has been added to a session that had
\* agent turns, and agent_b is to speak
C29_Witness ==
    /\ last.act = "handle_user_message"
    /\ last.sid \in DOMAIN sessions
    /\ run[last.conn].ret = "ok"
    /\ sessions[last.sid].turns > 0
    /\ LastEntry(sessions[last.sid]) = Msg("agent_a", TRUE, "text")
    /\ sessions[last.sid].next_speaker = "agent_b"

\* C30: start_session adds exactly one session, under an id no existing
\* session uses, with a transcript of exactly one system-tagged message,
\* turns 0, next_speaker agent_a and should_stop false, and leaves every
\* existing session unchanged.
C30_StartSessionFrame ==
    [][(steps' # steps /\ last'.act = "handle_start_session")
       => LET sid == last'.sid
          IN  /\ sid \notin DOMAIN sessions
              /\ DOMAIN sessions' = DOMAIN sessions \cup {sid}
              /\ \A other \in DOMAIN sessions : sessions'[other] = sessions[other]
              /\ Len(sessions'[sid].messages) = 1
              /\ sessions'[sid].messages[1].name = "system"
              /\ sessions'[sid].turns = 0
              /\ sessions'[sid].next_speaker = "agent_a"
              /\ sessions'[sid].should_stop = FALSE]_vars

\* a session has been started next to an existing one whose transcript
\* has grown beyond its seed
C30_Witness ==
    /\ last.act = "handle_start_session"
    /\ OtherId \in DOMAIN sessions
    /\ last.sid # OtherId
    /\ last.sid \in DOMAIN sessions
    /\ Len(sessions[OtherId].messages) > 1
    /\ sessions[last.sid].turns = 0

\* the positions of the events of the given type among the events the
\* executor yielded to connection c
YieldedAt(c, type) == {i \in 1..Len(yielded[c]) : yielded[c][i].type = type}

\* C31: a run of run_with_streaming emits waiting_for_input exactly when it
\* has ended with its next speaker being human; the event is the last one of
\* the run, and a run that emitted an evaluation emits no waiting_for_input.
C31_WaitingIffHuman ==
    \A c \in Conns :
        run[c].op \in RunOps
        => /\ YieldedAt(c, "waiting_for_input") # {}
              <=> (run[c].pc = "idle" /\ run[c].next_speaker = "human")
           /\ YieldedAt(c, "waiting_for_input") \subseteq {Len(yielded[c])}
           /\ YieldedAt(c, "evaluation") # {} => YieldedAt(c, "waiting_for_input") = {}

\* a run has ended with waiting_for_input after an agent turn
C31_Witness ==
    \E c \in Conns :
        /\ run[c].op \in RunOps
        /\ run[c].pc = "idle"
        /\ YieldedAt(c, "agent_message") # {}
        /\ YieldedAt(c, "waiting_for_input") = {Len(yielded[c])}

\* the events of agent turns in Y are grouped turn by turn: typing, then
\* streaming chunks of the same agent, then agent_message of the same agent
TurnsOrdered(Y) ==
    \A i \in 1..Len(Y) :
        /\ AgentEvent(Y[i], {"streaming_chunk", "agent_message"})
           => /\ i > 1
              /\ AgentEvent(Y[i - 1], {"typing", "streaming_chunk"})
              /\ Y[i - 1].agent = Y[i].agent
        /\ (AgentEvent(Y[i], {"typing", "streaming_chunk"}) /\ i < Len(Y))
           => /\ AgentEvent(Y[i + 1], {"streaming_chunk", "agent_message"})
              /\ Y[i + 1].agent = Y[i].agent

\* the events connection c's executor yields in this step
NewYielded(c) ==
    IF last'.act \in HandlerActs THEN yielded'[c]
    ELSE SubSeq(yielded'[c], Len(yielded[c]) + 1, Len(yielded'[c]))

\* the messages this step appends to the transcript of session sid
Appended(sid) ==
    IF sid \in DOMAIN sessions /\ sid \in DOMAIN sessions'
    THEN SubSeq(sessions'[sid].messages, Len(sessions[sid].messages) + 1,
                Len(sessions'[sid].messages))
    ELSE <<>>

\* C32: within a run the events of an agent turn are typing, then streaming
\* chunks of the same agent, then one agent_message, no event of another
\* turn in between; and a stretch of the run yields an agent_message exactly
\* when it appends an agent message to the transcript, for the same agent
\* and with the same text.
C32_TurnEventsOrdered ==
    [][\A c \in Conns :
          (steps' # steps /\ last'.conn = c)
          => LET E == SelectSeq(NewYielded(c), LAMBDA e : e.type = "agent_message")
                 A == SelectSeq(Appended(last'.sid),
                                LAMBDA m : ~m.human /\ m.name \in {"agent_a", "agent_b"})
             IN  /\ TurnsOrdered(yielded'[c])
                 /\ Len(E) = Len(A)
                 /\ \A i \in 1..Len(E) :
                       /\ E[i].agent = AgentLetter(A[i].name)
                       /\ E[i].content = A[i].content]_vars

\* a run with an agent_a turn and an agent_b turn that streamed a chunk
C32_Witness ==
    \E c \in Conns :
        LET Y == yielded[c]
        IN  /\ run[c].op \in RunOps
            /\ Len(Y) = 5
            /\ Y[1] = Event("typing", "a", "")
            /\ Y[2].type = "agent_message" /\ Y[2].agent = "a"
            /\ Y[3] = Event("typing", "b", "")
            /\ Y[4].type = "streaming_chunk" /\ Y[4].agent = "b"
            /\ Y[5].type = "agent_message" /\ Y[5].agent = "b"
            /\ sessions[run[c].sid].turns = 2

\* connection c begins a run of a stored session in this step
RunStarts(c) ==
    /\ steps' # steps /\ last'.conn = c
    /\ last'.act \in {"RunStart", "handle_continue", "handle_user_message",
                      "handle_stop", "handle_request_evaluation"}
    /\ last'.sid \in DOMAIN sessions

\* C33: when a run of a session has started, the session's interrupt flag is
\* false, whatever interrupts were issued before.
C33_FlagFalseAtRunStart ==
    [][\A c \in Conns :
          RunStarts(c) => ~FlagGet(interrupt_flags', last'.sid)]_vars

\* the run of a new session has started after another connection's
\* interrupt for it had been acknowledged; the flag is stored as false
C33_Witness ==
    \E c, d \in Conns :
        /\ last = Step(c, "RunStart", 1)
        /\ run[d].op = "interrupt" /\ run[d].sid = 1 /\ run[d].ret = "ok"
        /\ 1 \in DOMAIN interrupt_flags
        /\ ~interrupt_flags[1]

\* C34: in a participant session whose human holds the slot r, no run emits
\* a typing or agent_message event for persona r and the transcript holds no
\* generated message tagged r.
C34_HumanSlotNotGenerated ==
    \A sid \in DOMAIN sessions :
        LET state == sessions[sid]
        IN  (state.mode = "participant" /\ state.user_role \in {"agent_a", "agent_b"})
            => /\ \A i \in 1..Len(state.messages) :
                     ~(~state.messages[i].human /\ state.messages[i].name = state.user_role)
               /\ \A c \in Conns :
                     (run[c].op \in RunOps /\ run[c].sid = sid)
                     => \A i \in 1..Len(yielded[c]) :
                           AgentEvent(yielded[c][i], {"typing", "agent_message"})
                           => yielded[c][i].agent # AgentLetter(state.user_role)

\* C35: a user_message handled right after an acknowledged interrupt of the
\* same session starts a run that enters an agent turn, not the evaluator
\* turn.
C35_ResumeAfterInterrupt ==
    [][(/\ last.act = "handle_interrupt"
        /\ run[last.conn].ret = "ok"
        /\ steps' # steps
        /\ last'.act = "handle_user_message"
        /\ last'.sid = last.sid)
       => /\ run'[last'.conn].pc = "stream"
          /\ \A i \in 1..Len(yielded'[last'.conn]) :
                yielded'[last'.conn][i].agent # "evaluator"]_vars

\* the transcript holds an evaluator message
Evaluated(state) == \E i \in 1..Len(state.messages) : state.messages[i].name = "evaluator"

\* C36: a run that starts on a session whose transcript already holds an
\* evaluator message does not enter the evaluator turn, the turn that
\* appends an evaluator message and emits the evaluation event.
C36_EvaluationIsTerminal ==
    [][\A c \in Conns :
          (RunStarts(c) /\ Evaluated(sessions[last'.sid]))
          => /\ run'[c].pc # "eval"
             /\ \A i \in 1..Len(yielded'[c]) : yielded'[c][i].agent # "evaluator"]_vars

\* connection c's run is at the top of its while loop in this step
AtLoopTop(c) ==
    /\ steps' # steps /\ last'.conn = c
    /\ RunStarts(c) \/ last'.act = "Route"

\* this step of connection c starts no agent turn and generates no agent message
NoAgentTurn(c) ==
    /\ run'[c].pc \in {"eval", "cleanup", "idle"}
    /\ \A i \in 1..Len(NewYielded(c)) :
          ~AgentEvent(NewYielded(c)[i], {"typing", "streaming_chunk", "agent_message"})
    /\ \A i \in 1..Len(Appended(last'.sid)) :
          Appended(last'.sid)[i].human \/ Appended(last'.sid)[i].name = "evaluator"
    /\ sessions'[last'.sid].turns = sessions[last'.sid].turns

\* C37: when should_stop is true at the top of the run's while loop, the run
\* starts no agent turn there and none later: it emits no further typing for
\* agent a or b, appends no agent message and leaves turns alone; a run
\* started with should_stop true executes zero agent turns.
C37_NoTurnWhileStopPending ==
    [][\A c \in Conns :
          /\ (AtLoopTop(c) /\ sessions'[last'.sid].should_stop) => NoAgentTurn(c)
          /\ (steps' # steps /\ last'.conn = c /\ run[c].pc \in {"eval", "cleanup"})
             => NoAgentTurn(c)]_vars

\* a run started by continue on a stopped session whose stored next speaker
\* is agent_a has ended after the evaluation without any agent turn
C37_Witness ==
    \E c \in Conns :
        /\ last = Step(c, "Cleanup", run[c].sid)
        /\ run[c].op = "continue"
        /\ run[c].pc = "idle"
        /\ sessions[run[c].sid].should_stop
        /\ sessions[run[c].sid].next_speaker = "agent_a"
        /\ sessions[run[c].sid].turns = 0
        /\ YieldedAt(c, "evaluation") # {}
        /\ YieldedAt(c, "agent_message") = {}

====
